---- MODULE Spec2Model ----
(***************************************************************************)
(* The download command of icloud-photo-cli: Download runs downloadPhoto   *)
(* (threadNum goroutines sharing one photo iterator, two counters and one  *)
(* error slot) and then, when asked, autoDeletePhoto (threadNum goroutines *)
(* removing the local files of the "Recently Deleted" album).              *)
(* One worker step of the model is one access to shared state (an atomic   *)
(* load or add, a call of the shared iterator, a read or a write of        *)
(* finalErr) together with the worker-local code around it.                *)
(***************************************************************************)
EXTENDS Integers, Sequences, FiniteSets, TLC

\* ------------------------------------------------------------------ bounds
MaxAssets == 2
MaxThreads == 2
MaxCallers == 2
MaxFolders == 2

\* stop-found-num's default value (command_download.go:45)
DefaultStopNum == 50

Assets == 1..MaxAssets
Workers == 1..MaxThreads

\* ------------------------------------------------------------- error values
Nil == <<"nil", 0>>
ErrSetup == <<"setup", 0>>
ErrPull(w) == <<"pull", w>>
ErrFetch(w) == <<"fetch", w>>
ErrRemove(w) == <<"remove", w>>
ErrNotExist == <<"ErrNotExist", 0>>

\* ------------------------------------------------- 64-bit and 32-bit integers
\* A Go int (64 bits) is kept as its two words: the value is hi * 2^32 + lo
\* with lo the signed low word, -2^31 <= lo < 2^31.
Int64(h, l) == [hi |-> h, lo |-> l]

\* int32(x) of an int: the low word, read as a signed 32-bit number.
ToInt32(x) == x.lo

\* x == 0 for an int
IsZero(x) == x.hi = 0 /\ x.lo = 0

\* mutant of line 176: the counter is not incremented
AddInt32_Stuck(v) == v

\* atomic.AddInt32(&v, 1): 32-bit wrap-around
AddInt32(v) == IF v = 1073741823 + 1073741824 THEN (-1073741824) - 1073741824 ELSE v + 1

\* The values of the recent flag that are tried: 0 (not set), the caps below
\* the number of assets, and 2^32 - 1, a value above 2^31 - 1.
RecentValues ==
  {Int64(0, k) : k \in 0..(MaxAssets - 1)} \cup {Int64(1, -1)}

\* The values of stop-found-num that are tried.
StopNumValues == {-1, 0, 1, DefaultStopNum}

\* ------------------------------------------------------ remote collaborator
\* The album being downloaded yields the assets 1..albumLen in this order,
\* the "Recently Deleted" album yields the assets albumLen+1..MaxAssets.
AlbumSeq(n) == [i \in 1..n |-> i]
DeletedSeq(n) == [i \in 1..(MaxAssets - n) |-> n + i]

\* photo.Size(): the byte size of the original version
PhotoSize(a) == a

\* photo.LocalPath(outputDir, PhotoVersionOriginal): one path per asset
LocalPath(a) == a

\* A file that a failed DownloadTo left behind: fewer bytes than the asset.
PartialSize == 0

\* os.Stat(path): <<>> for "no file" (f == nil), <<size>> for a file.
NoFile == <<>>
File(size) == <<size>>
FileStates(a) == {NoFile, File(PartialSize), File(PhotoSize(a))}

VARIABLES
  fs,                  \* local path -> NoFile or File(size)
  albumLen,            \* number of assets of the downloaded album
  pcMain,              \* where Download is: idle, dlWait, dlRet, delWait, delRet
  recent,              \* downloadPhoto's recent (after line 129-134)
  stopNum,             \* downloadPhoto's stopNum
  threadNum,           \* threadNum
  autoDelete,          \* the auto-delete flag, from the moment line 106 reads it
  pc,                  \* worker -> position in its goroutine
  photoAsset,          \* worker -> the asset of its current iteration (0: none)
  err,                 \* worker -> the error it hit (Nil: none)
  seenFound,           \* worker -> foundDownloadedNum as its own add left it
  iterPos,             \* photoIter: number of assets handed out
  downloaded,          \* int32 counter
  foundDownloadedNum,  \* int64 counter
  finalErr,            \* the shared error slot
  ret,                 \* the value downloadPhoto / autoDeletePhoto returned
  hist,                \* asset -> the events of this run on it (history)
  fs0,                 \* fs when the download run started (history)
  lateFetch,           \* fetches started with a cap already reached (history)
  cleanPrev            \* the last download run ended clean (history)

\* PhotoService.Albums (the album cache)
VARIABLES
  folders,             \* the folder records getFolders returns when it succeeds
  albums,              \* r._albums: album name -> PhotoAlbum
  callPc,              \* caller -> position in Albums()
  albumIsNil,          \* caller -> its local albumIsNil
  tmp,                 \* caller -> its local tmp
  result,              \* caller -> what its last call returned (<<>>: nothing yet)
  sawCache,            \* caller -> the cache was filled when the call began (history)
  listed               \* caller -> the call has called getFolders (history)

dlVars == <<fs, albumLen, pcMain, recent, stopNum, threadNum, autoDelete, pc,
            photoAsset, err, seenFound, iterPos, downloaded, foundDownloadedNum, finalErr,
            ret, hist, fs0, lateFetch, cleanPrev>>

albumVars == <<folders, albums, callPc, albumIsNil, tmp, result, sawCache, listed>>

vars == <<dlVars, albumVars>>

params == <<recent, stopNum, threadNum, autoDelete>>

\* ------------------------------------------------------------------ helpers
Spawned == {w \in Workers : w <= threadNum}

AllJoined_AllSlots == \A w \in Workers : pc[w] = "done"

AllJoined_Any == \E w \in Spawned : pc[w] = "done"

AllJoined == \A w \in Spawned : pc[w] = "done"

NoHist == [a \in Assets |-> <<>>]

Log(a, e) == [hist EXCEPT ![a] = Append(@, e)]

Count(a, e) == Cardinality({i \in 1..Len(hist[a]) : hist[a][i] = e})

RECURSIVE SumCount(_, _)
SumCount(n, e) == IF n = 0 THEN 0 ELSE Count(n, e) + SumCount(n - 1, e)

\* events of the run, over all assets
Total(e) == SumCount(MaxAssets, e)

\* ---------------------------------------------------------------- the code
\* mutants of line 147: > for >=, and a cap that fires one download early
RecentReached_Strict(d, r) == d > ToInt32(r)
RecentReached_Early(d, r) == d + 1 >= ToInt32(r)

\* line 147: atomic.LoadInt32(&downloaded) >= int32(recent)
RecentReached(d, r) == d >= ToInt32(r)

\* mutant of lines 150 and 172: the cap fires one hit early
StopReached_Strict(f, s) == f > s

StopReached_Early(f, s) == f + 1 >= s

\* line 150 and 172: foundDownloadedNum >= stopNum
StopReached(f, s) == f >= s

\* mutants of lines 191-192: the size comparison inverted, and left out
IsDownloaded_Inverted(f, size) == f # NoFile /\ size # f[1]
IsDownloaded_NoSizeCheck(f, size) == f # NoFile

\* downloadPhotoAsset, lines 191-196: skip iff the file exists with the size
IsDownloaded(f, size) == f # NoFile /\ ~(size # f[1])

\* lines 159-161 and 166-168 (downloadPhoto), 237-239 (autoDeletePhoto)
WritesIfSet(slot) == slot # Nil

\* lines 225-227 (autoDeletePhoto)
WritesIfUnset(slot) == slot = Nil

\* line 129: recent == 0 is replaced by the album's size
EffectiveRecent(r, n) == IF IsZero(r) THEN Int64(0, n) ELSE r

\* recent, the cap on new downloads, as a number: is d >= recent?
AtLeastRecent(d, r) == r.hi < 0 \/ (r.hi = 0 /\ d >= r.lo)

\* one of the two caps of the download run is reached (history)
CapReached ==
  AtLeastRecent(downloaded, recent) \/ foundDownloadedNum >= stopNum

\* ------------------------------------------------- PhotoService.Albums: data
Callers == 1..MaxCallers

ErrFolders == <<"getFolders", 0>>

\* icloudPhotoFolderMeta (the query filters are left out)
icloudPhotoFolderMeta ==
  ("All Photos" :> [ObjType |-> "CPLAssetByAddedDate",
      ListType |-> "CPLAssetAndMasterByAddedDate",
      Direction |-> "ASCENDING"]) @@
  ("Time-lapse" :> [ObjType |-> "CPLAssetInSmartAlbumByAssetDate:Timelapse",
      ListType |-> "CPLAssetAndMasterInSmartAlbumByAssetDate",
      Direction |-> "ASCENDING"]) @@
  ("Videos" :> [ObjType |-> "CPLAssetInSmartAlbumByAssetDate:Video",
      ListType |-> "CPLAssetAndMasterInSmartAlbumByAssetDate",
      Direction |-> "ASCENDING"]) @@
  ("Slo-mo" :> [ObjType |-> "CPLAssetInSmartAlbumByAssetDate:Slomo",
      ListType |-> "CPLAssetAndMasterInSmartAlbumByAssetDate",
      Direction |-> "ASCENDING"]) @@
  ("Bursts" :> [ObjType |-> "CPLAssetBurstStackAssetByAssetDate",
      ListType |-> "CPLBurstStackAssetAndMasterByAssetDate",
      Direction |-> "ASCENDING"]) @@
  ("Favorites" :> [ObjType |-> "CPLAssetInSmartAlbumByAssetDate:Favorite",
      ListType |-> "CPLAssetAndMasterInSmartAlbumByAssetDate",
      Direction |-> "ASCENDING"]) @@
  ("Panoramas" :> [ObjType |-> "CPLAssetInSmartAlbumByAssetDate:Panorama",
      ListType |-> "CPLAssetAndMasterInSmartAlbumByAssetDate",
      Direction |-> "ASCENDING"]) @@
  ("Screenshots" :> [ObjType |-> "CPLAssetInSmartAlbumByAssetDate:Screenshot",
      ListType |-> "CPLAssetAndMasterInSmartAlbumByAssetDate",
      Direction |-> "ASCENDING"]) @@
  ("Live" :> [ObjType |-> "CPLAssetInSmartAlbumByAssetDate:Live",
      ListType |-> "CPLAssetAndMasterInSmartAlbumByAssetDate",
      Direction |-> "ASCENDING"]) @@
  ("Recently Deleted" :> [ObjType |-> "CPLAssetDeletedByExpungedDate",
      ListType |-> "CPLAssetAndMasterDeletedByExpungedDate",
      Direction |-> "ASCENDING"]) @@
  ("Hidden" :> [ObjType |-> "CPLAssetHiddenByAssetDate",
      ListType |-> "CPLAssetAndMasterHiddenByAssetDate",
      Direction |-> "ASCENDING"])

\* lines 49-62: the built-in albums
BuiltinAlbums ==
  [n \in DOMAIN icloudPhotoFolderMeta |->
     [Name |-> n,
      ListType |-> icloudPhotoFolderMeta[n].ListType,
      ObjType |-> icloudPhotoFolderMeta[n].ObjType,
      Direction |-> icloudPhotoFolderMeta[n].Direction]]

\* an empty map[string]*PhotoAlbum (also the nil map)
EmptyMap == [n \in {} |-> ""]

\* A folder record: the fields AlbumNameEnc and IsDeleted are <<>> when nil
\* and <<value>> otherwise.
Folder(id, enc, del) == [RecordName |-> id, AlbumNameEnc |-> enc, IsDeleted |-> del]

\* The folder records that are tried: two live folders named "A", a live
\* folder named like a built-in album, a deleted folder, the root folder, a
\* folder without a name field, one with an empty name and one whose name
\* is not base64.
FolderValues ==
  { Folder("F1", <<"QQ==">>, <<>>),
    Folder("F2", <<"QQ==">>, <<"">>),
    Folder("F3", <<"RmF2b3JpdGVz">>, <<>>),
    Folder("F4", <<"Qg==">>, <<"1">>),
    Folder("----Root-Folder----", <<"Qg==">>, <<>>),
    Folder("F5", <<>>, <<>>),
    Folder("F6", <<"">>, <<>>),
    Folder("F7", <<"!">>, <<>>) }

FolderLists == UNION {[1..n -> FolderValues] : n \in 0..MaxFolders}

\* line 81, base64.StdEncoding.DecodeString with the error dropped: the
\* decoded bytes; no bytes for "" and for input that is not base64
Base64Decode(s) ==
  CASE s = "QQ==" -> "A"
    [] s = "Qg==" -> "B"
    [] s = "RmF2b3JpdGVz" -> "Favorites"
    [] OTHER -> ""

\* mutant of lines 73-75: a deleted folder is not skipped
FolderSkipped_KeepsDeleted(folder) ==
  \/ folder.AlbumNameEnc = <<>>
  \/ folder.AlbumNameEnc[1] = ""
  \/ folder.RecordName = "----Root-Folder----"

\* lines 70-78: the three continue statements before the name is decoded
FolderSkipped(folder) ==
  \/ folder.AlbumNameEnc = <<>>
  \/ folder.AlbumNameEnc[1] = ""
  \/ (folder.IsDeleted # <<>> /\ folder.IsDeleted[1] # "")
  \/ folder.RecordName = "----Root-Folder----"

\* lines 86-101: the album made of a user folder
UserAlbum(folder) ==
  [Name |-> Base64Decode(folder.AlbumNameEnc[1]),
   ListType |-> "CPLContainerRelationLiveByAssetDate",
   ObjType |-> "CPLContainerRelationNotDeletedByAssetDate:" \o folder.RecordName,
   Direction |-> "ASCENDING"]

\* tmp[k] = v
Put(m, k, v) == [n \in DOMAIN m \cup {k} |-> IF n = k THEN v ELSE m[n]]

\* lines 69-102: the loop over the folders, from the i-th on
RECURSIVE AddFolders(_, _, _)
AddFolders(t, fl, i) ==
  IF i > Len(fl) THEN t
  ELSE IF FolderSkipped(fl[i]) THEN AddFolders(t, fl, i + 1)
  ELSE IF Base64Decode(fl[i].AlbumNameEnc[1]) = "" THEN AddFolders(t, fl, i + 1)
  ELSE AddFolders(Put(t, Base64Decode(fl[i].AlbumNameEnc[1]), UserAlbum(fl[i])),
                  fl, i + 1)

\* lines 47-102: tmp after a successful getFolders
BuildAlbums(fl) == AddFolders(BuiltinAlbums, fl, 1)

\* mutant of line 40: the cache never counts as filled
IsEmptyCache_Always(m) == TRUE

\* line 40: len(r._albums) == 0
IsEmptyCache(m) == Cardinality(DOMAIN m) = 0

\* no call of Albums is under way and the cache is empty
AlbumsAtRest ==
  /\ albums = EmptyMap
  /\ callPc = [c \in Callers |-> "idle"]
  /\ albumIsNil = [c \in Callers |-> FALSE]
  /\ tmp = [c \in Callers |-> EmptyMap]
  /\ result = [c \in Callers |-> <<>>]
  /\ sawCache = [c \in Callers |-> FALSE]
  /\ listed = [c \in Callers |-> FALSE]

\* ---------------------------------------------------------- download command
Init ==
  /\ folders = <<>>
  /\ AlbumsAtRest
  /\ fs \in [Assets -> {NoFile, File(PartialSize)} \cup {File(PhotoSize(a)) : a \in Assets}]
  /\ \A a \in Assets : fs[a] \in FileStates(a)
  /\ albumLen \in 0..MaxAssets
  /\ pcMain = "idle"
  /\ recent = Int64(0, 0)
  /\ stopNum = 0
  /\ threadNum = 0
  /\ autoDelete = FALSE
  /\ pc = [w \in Workers |-> "idle"]
  /\ photoAsset = [w \in Workers |-> 0]
  /\ err = [w \in Workers |-> Nil]
  /\ seenFound = [w \in Workers |-> 0]
  /\ iterPos = 0
  /\ lateFetch = 0
  /\ downloaded = 0
  /\ foundDownloadedNum = 0
  /\ finalErr = Nil
  /\ ret = Nil
  /\ hist = NoHist
  /\ fs0 = fs
  /\ cleanPrev = FALSE

\* Download line 102 -> downloadPhoto lines 115-181: the setup succeeds and the
\* goroutines are started.
StartDownload(r, s, t) ==
  /\ pcMain = "idle"
  /\ pcMain' = "dlWait"
  /\ recent' = EffectiveRecent(r, albumLen)
  /\ stopNum' = s
  /\ threadNum' = t
  /\ autoDelete' = FALSE
  /\ pc' = [w \in Workers |-> IF w <= t THEN "loop" ELSE "idle"]
  /\ photoAsset' = [w \in Workers |-> 0]
  /\ err' = [w \in Workers |-> Nil]
  /\ seenFound' = [w \in Workers |-> 0]
  /\ iterPos' = 0
  /\ lateFetch' = 0
  /\ downloaded' = 0
  /\ foundDownloadedNum' = 0
  /\ finalErr' = Nil
  /\ ret' = Nil
  /\ hist' = NoHist
  /\ fs0' = fs
  /\ UNCHANGED <<fs, albumLen, cleanPrev>>
  /\ UNCHANGED albumVars

\* downloadPhoto lines 116-134: MkdirAll, GetAlbum or GetSize fails and
\* downloadPhoto returns the error before any goroutine is started.
DownloadSetupFail(ad) ==
  /\ pcMain = "idle"
  /\ pcMain' = "dlRet"
  /\ ret' = ErrSetup
  /\ autoDelete' = ad
  /\ fs0' = fs
  /\ cleanPrev' = FALSE
  /\ UNCHANGED <<fs, albumLen, recent, stopNum, threadNum, pc, photoAsset, err, iterPos, downloaded,
                 foundDownloadedNum, finalErr, hist, seenFound, lateFetch>>
  /\ UNCHANGED albumVars

\* line 147
DlCheckRecent(w) ==
  /\ pcMain = "dlWait" /\ pc[w] = "loop"
  /\ pc' = [pc EXCEPT ![w] = IF RecentReached(downloaded, recent) THEN "done" ELSE "chkStop"]
  /\ UNCHANGED <<fs, albumLen, pcMain, params, photoAsset, err, iterPos, downloaded,
                 foundDownloadedNum, finalErr, ret, hist, fs0, cleanPrev, seenFound, lateFetch>>
  /\ UNCHANGED albumVars

\* line 150
DlCheckStop(w) ==
  /\ pcMain = "dlWait" /\ pc[w] = "chkStop"
  /\ pc' = [pc EXCEPT ![w] = IF StopReached(foundDownloadedNum, stopNum) THEN "done" ELSE "next"]
  /\ UNCHANGED <<fs, albumLen, pcMain, params, photoAsset, err, iterPos, downloaded,
                 foundDownloadedNum, finalErr, ret, hist, fs0, cleanPrev, seenFound, lateFetch>>
  /\ UNCHANGED albumVars

\* line 154, photoIter.Next() hands out the next asset
DlNextOk(w) ==
  /\ pcMain = "dlWait" /\ pc[w] = "next"
  /\ iterPos < albumLen
  /\ iterPos' = iterPos + 1
  /\ photoAsset' = [photoAsset EXCEPT ![w] = AlbumSeq(albumLen)[iterPos + 1]]
  /\ pc' = [pc EXCEPT ![w] = "asset"]
  /\ UNCHANGED <<fs, albumLen, pcMain, params, err, downloaded,
                 foundDownloadedNum, finalErr, ret, hist, fs0, cleanPrev, seenFound, lateFetch>>
  /\ UNCHANGED albumVars

\* lines 154-158, photoIter.Next() returns ErrPhotosIterateEnd
DlNextEnd(w) ==
  /\ pcMain = "dlWait" /\ pc[w] = "next"
  /\ iterPos >= albumLen
  /\ pc' = [pc EXCEPT ![w] = "done"]
  /\ UNCHANGED <<fs, albumLen, pcMain, params, photoAsset, err, iterPos, downloaded,
                 foundDownloadedNum, finalErr, ret, hist, fs0, cleanPrev, seenFound, lateFetch>>
  /\ UNCHANGED albumVars

\* lines 154-163, photoIter.Next() fails with another error
DlNextFail(w) ==
  /\ pcMain = "dlWait" /\ pc[w] = "next"
  /\ err' = [err EXCEPT ![w] = ErrPull(w)]
  /\ finalErr' = IF WritesIfSet(finalErr) THEN ErrPull(w) ELSE finalErr
  /\ pc' = [pc EXCEPT ![w] = "done"]
  /\ UNCHANGED <<fs, albumLen, pcMain, params, photoAsset, iterPos, downloaded,
                 foundDownloadedNum, ret, hist, fs0, cleanPrev, seenFound, lateFetch>>
  /\ UNCHANGED albumVars

\* line 165 -> downloadPhotoAsset lines 187-200 up to the call of DownloadTo,
\* and lines 170-171 when the asset is skipped
DlAsset(w) ==
  /\ pcMain = "dlWait" /\ pc[w] = "asset"
  /\ LET a == photoAsset[w]
         f == fs[LocalPath(a)]
     IN IF IsDownloaded(f, PhotoSize(a))
        THEN /\ foundDownloadedNum' = foundDownloadedNum + 1
             /\ seenFound' = [seenFound EXCEPT ![w] = foundDownloadedNum + 1]
             /\ hist' = Log(a, "skip")
             /\ pc' = [pc EXCEPT ![w] = "chkFound"]
             /\ photoAsset' = [photoAsset EXCEPT ![w] = 0]
             /\ UNCHANGED lateFetch
        ELSE /\ hist' = Log(a, "fetch")
             /\ lateFetch' = IF CapReached THEN lateFetch + 1 ELSE lateFetch
             /\ pc' = [pc EXCEPT ![w] = "fetching"]
             /\ UNCHANGED <<foundDownloadedNum, seenFound, photoAsset>>
  /\ UNCHANGED <<fs, albumLen, pcMain, params, err, iterPos, downloaded,
                 finalErr, ret, fs0, cleanPrev>>
  /\ UNCHANGED albumVars

\* line 172: foundDownloadedNum is read again, without atomic.Load, while the
\* other workers add to it: the read sees the worker's own add and any of the
\* adds made since
DlCheckFound(w) ==
  /\ pcMain = "dlWait" /\ pc[w] = "chkFound"
  /\ \E v \in seenFound[w]..foundDownloadedNum :
       pc' = [pc EXCEPT ![w] = IF StopReached(v, stopNum) THEN "done" ELSE "loop"]
  /\ seenFound' = [seenFound EXCEPT ![w] = 0]
  /\ UNCHANGED <<fs, albumLen, pcMain, params, photoAsset, err, iterPos, downloaded,
                 foundDownloadedNum, finalErr, ret, hist, fs0, cleanPrev, lateFetch>>
  /\ UNCHANGED albumVars

\* lines 193/199 and 175-177: DownloadTo succeeds, the counter is incremented
DlFetchOk(w) ==
  /\ pcMain = "dlWait" /\ pc[w] = "fetching"
  /\ LET a == photoAsset[w]
     IN /\ fs' = [fs EXCEPT ![LocalPath(a)] = File(PhotoSize(a))]
        /\ hist' = Log(a, "ok")
  /\ downloaded' = AddInt32(downloaded)
  /\ pc' = [pc EXCEPT ![w] = "loop"]
  /\ UNCHANGED <<albumLen, pcMain, params, err, iterPos,
                 foundDownloadedNum, finalErr, ret, fs0, cleanPrev, seenFound, lateFetch>>
  /\ photoAsset' = [photoAsset EXCEPT ![w] = 0]
  /\ UNCHANGED albumVars

\* mutant of lines 166-169: the error path removes what was at the path
FailedFetchFiles_Cleanup(f) == {NoFile}

\* lines 166-169: on an error of DownloadTo the worker only returns, so the
\* path holds what the failed DownloadTo left there: the file as it was, or
\* a partly written one
FailedFetchFiles(f) == {f, File(PartialSize)}

\* lines 193/199 and 165-169: DownloadTo fails
DlFetchFail(w) ==
  /\ pcMain = "dlWait" /\ pc[w] = "fetching"
  /\ LET a == photoAsset[w]
     IN /\ \E f \in FailedFetchFiles(fs[LocalPath(a)]) :
             fs' = [fs EXCEPT ![LocalPath(a)] = f]
        /\ hist' = Log(a, "fail")
  /\ err' = [err EXCEPT ![w] = ErrFetch(w)]
  /\ finalErr' = IF WritesIfSet(finalErr) THEN ErrFetch(w) ELSE finalErr
  /\ pc' = [pc EXCEPT ![w] = "done"]
  /\ UNCHANGED <<albumLen, pcMain, params, iterPos, downloaded,
                 foundDownloadedNum, ret, fs0, cleanPrev, seenFound, lateFetch>>
  /\ photoAsset' = [photoAsset EXCEPT ![w] = 0]
  /\ UNCHANGED albumVars

\* the download run ended without a failure and with both counters below the
\* caps the workers compare them with (history)
CleanRun ==
  /\ \A w \in Spawned : err[w] = Nil
  /\ downloaded < recent.lo
  /\ foundDownloadedNum < stopNum

\* lines 181-183: wait.Wait() returns, downloadPhoto returns finalErr
DownloadJoin(ad) ==
  /\ pcMain = "dlWait" /\ AllJoined
  /\ ret' = finalErr
  /\ pcMain' = "dlRet"
  /\ autoDelete' = ad
  /\ cleanPrev' = CleanRun
  /\ UNCHANGED <<fs, albumLen, recent, stopNum, threadNum, pc, photoAsset, err, iterPos,
                 downloaded, foundDownloadedNum, finalErr, hist, fs0, seenFound, lateFetch>>
  /\ UNCHANGED albumVars

\* the state between two calls of Download: no goroutine, no locals
Idle ==
  /\ pcMain' = "idle"
  /\ recent' = Int64(0, 0)
  /\ stopNum' = 0
  /\ threadNum' = 0
  /\ autoDelete' = FALSE
  /\ pc' = [w \in Workers |-> "idle"]
  /\ photoAsset' = [w \in Workers |-> 0]
  /\ err' = [w \in Workers |-> Nil]
  /\ seenFound' = [w \in Workers |-> 0]
  /\ iterPos' = 0
  /\ lateFetch' = 0
  /\ downloaded' = 0
  /\ foundDownloadedNum' = 0
  /\ finalErr' = Nil
  /\ ret' = Nil
  /\ hist' = NoHist
  /\ fs0' = fs

\* mutant of lines 102-106: the delete pass does not look at the error
RunsAutoDelete_IgnoresErr(e, ad) == ad

\* Download lines 102-106: autoDeletePhoto is called when downloadPhoto
\* returned nil and --auto-delete is set
RunsAutoDelete(e, ad) == e = Nil /\ ad

\* Download lines 102-112: Download returns downloadPhoto's error, or nil when
\* auto-delete is not asked for
DownloadReturn ==
  /\ pcMain = "dlRet"
  /\ ~RunsAutoDelete(ret, autoDelete)
  /\ Idle
  /\ UNCHANGED <<fs, albumLen, cleanPrev>>
  /\ UNCHANGED albumVars

\* Download lines 106-107 -> autoDeletePhoto lines 203-217: the goroutines of
\* the delete pass are started
StartAutoDelete ==
  /\ pcMain = "dlRet"
  /\ RunsAutoDelete(ret, autoDelete)
  /\ pcMain' = "delWait"
  /\ pc' = [w \in Workers |-> IF w <= threadNum THEN "dNext" ELSE "idle"]
  /\ photoAsset' = [w \in Workers |-> 0]
  /\ err' = [w \in Workers |-> Nil]
  /\ seenFound' = [w \in Workers |-> 0]
  /\ iterPos' = 0
  /\ lateFetch' = 0
  /\ downloaded' = 0
  /\ foundDownloadedNum' = 0
  /\ finalErr' = Nil
  /\ recent' = Int64(0, 0)
  /\ stopNum' = 0
  /\ hist' = NoHist
  /\ fs0' = fs
  /\ UNCHANGED <<fs, albumLen, threadNum, autoDelete, ret, cleanPrev>>
  /\ UNCHANGED albumVars

\* autoDeletePhoto lines 204-207: GetAlbum fails
AutoDeleteSetupFail ==
  /\ pcMain = "dlRet"
  /\ RunsAutoDelete(ret, autoDelete)
  /\ pcMain' = "delRet"
  /\ ret' = ErrSetup
  /\ pc' = [w \in Workers |-> "idle"]
  /\ photoAsset' = [w \in Workers |-> 0]
  /\ err' = [w \in Workers |-> Nil]
  /\ seenFound' = [w \in Workers |-> 0]
  /\ iterPos' = 0
  /\ lateFetch' = 0
  /\ downloaded' = 0
  /\ foundDownloadedNum' = 0
  /\ finalErr' = Nil
  /\ recent' = Int64(0, 0)
  /\ stopNum' = 0
  /\ hist' = NoHist
  /\ fs0' = fs
  /\ UNCHANGED <<fs, albumLen, threadNum, autoDelete, cleanPrev>>
  /\ UNCHANGED albumVars

\* line 220, photoIter.Next() hands out the next asset
DelNextOk(w) ==
  /\ pcMain = "delWait" /\ pc[w] = "dNext"
  /\ iterPos < Len(DeletedSeq(albumLen))
  /\ iterPos' = iterPos + 1
  /\ photoAsset' = [photoAsset EXCEPT ![w] = DeletedSeq(albumLen)[iterPos + 1]]
  /\ pc' = [pc EXCEPT ![w] = "dRemove"]
  /\ UNCHANGED <<fs, albumLen, pcMain, params, err, downloaded,
                 foundDownloadedNum, finalErr, ret, hist, fs0, cleanPrev, seenFound, lateFetch>>
  /\ UNCHANGED albumVars

\* lines 220-224, photoIter.Next() returns ErrPhotosIterateEnd
DelNextEnd(w) ==
  /\ pcMain = "delWait" /\ pc[w] = "dNext"
  /\ iterPos >= Len(DeletedSeq(albumLen))
  /\ pc' = [pc EXCEPT ![w] = "done"]
  /\ UNCHANGED <<fs, albumLen, pcMain, params, photoAsset, err, iterPos, downloaded,
                 foundDownloadedNum, finalErr, ret, hist, fs0, cleanPrev, seenFound, lateFetch>>
  /\ UNCHANGED albumVars

\* lines 220-225, photoIter.Next() fails with another error: finalErr is read
DelNextFail(w) ==
  /\ pcMain = "delWait" /\ pc[w] = "dNext"
  /\ err' = [err EXCEPT ![w] = ErrPull(w)]
  /\ pc' = [pc EXCEPT ![w] = IF WritesIfUnset(finalErr) THEN "dSetErr" ELSE "done"]
  /\ UNCHANGED <<fs, albumLen, pcMain, params, photoAsset, iterPos, downloaded,
                 foundDownloadedNum, finalErr, ret, hist, fs0, cleanPrev, seenFound, lateFetch>>
  /\ UNCHANGED albumVars

\* os.Remove(path): nil when the file was there and is removed, ErrNotExist
\* when there is no file, or another error that leaves the path as it is
RemoveResults(f, w) ==
  (IF f = NoFile THEN {ErrNotExist} ELSE {Nil}) \cup {ErrRemove(w)}

\* mutant of line 234: "does not exist" is not recognised
IsNotExist_Never(e) == FALSE

\* line 234: errors.Is(err, os.ErrNotExist)
IsNotExist(e) == e = ErrNotExist

\* what os.Remove did, for the history
RemoveEvent(e) == IF e = Nil THEN "removed" ELSE IF e = ErrNotExist THEN "absent" ELSE "rmfail"

\* lines 231-243: os.Remove and what the worker does with its result
DelRemove(w) ==
  /\ pcMain = "delWait" /\ pc[w] = "dRemove"
  /\ LET a == photoAsset[w]
         f == fs[LocalPath(a)]
     IN \E e \in RemoveResults(f, w) :
          /\ hist' = Log(a, RemoveEvent(e))
          /\ fs' = IF e = Nil THEN [fs EXCEPT ![LocalPath(a)] = NoFile] ELSE fs
          /\ IF e = Nil \/ IsNotExist(e)
             THEN /\ pc' = [pc EXCEPT ![w] = "dNext"]
                  /\ UNCHANGED err
             ELSE /\ err' = [err EXCEPT ![w] = e]
                  /\ pc' = [pc EXCEPT ![w] = IF WritesIfSet(finalErr) THEN "dSetErr" ELSE "done"]
  /\ UNCHANGED <<albumLen, pcMain, params, iterPos, downloaded,
                 foundDownloadedNum, finalErr, ret, fs0, cleanPrev, seenFound, lateFetch>>
  /\ photoAsset' = [photoAsset EXCEPT ![w] = 0]
  /\ UNCHANGED albumVars

\* lines 226 and 238: finalErr = err
DelSetErr(w) ==
  /\ pcMain = "delWait" /\ pc[w] = "dSetErr"
  /\ finalErr' = err[w]
  /\ pc' = [pc EXCEPT ![w] = "done"]
  /\ UNCHANGED <<fs, albumLen, pcMain, params, photoAsset, err, iterPos, downloaded,
                 foundDownloadedNum, ret, hist, fs0, cleanPrev, seenFound, lateFetch>>
  /\ UNCHANGED albumVars

\* lines 247-249: wait.Wait() returns, autoDeletePhoto returns finalErr
DeleteJoin ==
  /\ pcMain = "delWait" /\ AllJoined
  /\ ret' = finalErr
  /\ pcMain' = "delRet"
  /\ UNCHANGED <<fs, albumLen, params, pc, photoAsset, err, iterPos, downloaded,
                 foundDownloadedNum, finalErr, hist, fs0, cleanPrev, seenFound, lateFetch>>
  /\ UNCHANGED albumVars

\* Download lines 107-112: Download returns autoDeletePhoto's error, or nil
DeleteReturn ==
  /\ pcMain = "delRet"
  /\ Idle
  /\ UNCHANGED <<fs, albumLen, cleanPrev>>
  /\ UNCHANGED albumVars

\* one step of goroutine w
WorkerStep(w) ==
  \/ DlCheckRecent(w)
  \/ DlCheckStop(w)
  \/ DlNextOk(w)
  \/ DlNextEnd(w)
  \/ DlNextFail(w)
  \/ DlAsset(w)
  \/ DlCheckFound(w)
  \/ DlFetchOk(w)
  \/ DlFetchFail(w)
  \/ DelNextOk(w)
  \/ DelNextEnd(w)
  \/ DelNextFail(w)
  \/ DelRemove(w)
  \/ DelSetErr(w)

Next ==
  \/ \E r \in RecentValues, s \in StopNumValues, t \in 1..MaxThreads :
       StartDownload(r, s, t)
  \/ \E ad \in BOOLEAN : DownloadSetupFail(ad)
  \/ \E w \in Workers : WorkerStep(w)
  \/ \E ad \in BOOLEAN : DownloadJoin(ad)
  \/ DownloadReturn
  \/ StartAutoDelete
  \/ AutoDeleteSetupFail
  \/ DeleteJoin
  \/ DeleteReturn

Spec == Init /\ [][Next]_vars

\* wait.Wait() returning in either pass
JoinStep == (\E ad \in BOOLEAN : DownloadJoin(ad)) \/ DeleteJoin

\* the scheduler runs every goroutine that can take a step, each call of
\* Next, DownloadTo and os.Remove returns, and wait.Wait() returns once the
\* counter is zero
Fairness ==
  /\ \A w \in Workers : WF_vars(WorkerStep(w))
  /\ WF_vars(JoinStep)

FairSpec == Spec /\ Fairness

\* ------------------------------------------------ PhotoService.Albums: steps
\* lines 38-41: a call of Albums begins; under the lock it reads whether the
\* cache is empty
AlbumsCheck(c) ==
  /\ callPc[c] = "idle"
  /\ albumIsNil' = [albumIsNil EXCEPT ![c] = IsEmptyCache(albums)]
  /\ sawCache' = [sawCache EXCEPT ![c] = (DOMAIN albums # {})]
  /\ listed' = [listed EXCEPT ![c] = FALSE]
  /\ result' = [result EXCEPT ![c] = <<>>]
  /\ callPc' = [callPc EXCEPT ![c] = "branch"]
  /\ UNCHANGED <<folders, albums, tmp>>
  /\ UNCHANGED dlVars

\* lines 43-45: return r._albums, nil
AlbumsReturnCached(c) ==
  /\ callPc[c] = "branch" /\ ~albumIsNil[c]
  /\ result' = [result EXCEPT ![c] = <<albums, Nil>>]
  /\ callPc' = [callPc EXCEPT ![c] = "idle"]
  /\ UNCHANGED <<folders, albums, albumIsNil, tmp, sawCache, listed>>
  /\ UNCHANGED dlVars

\* lines 47-67: getFolders fails, Albums returns nil and the error
AlbumsGetFoldersFail(c) ==
  /\ callPc[c] = "branch" /\ albumIsNil[c]
  /\ listed' = [listed EXCEPT ![c] = TRUE]
  /\ result' = [result EXCEPT ![c] = <<EmptyMap, ErrFolders>>]
  /\ callPc' = [callPc EXCEPT ![c] = "idle"]
  /\ UNCHANGED <<folders, albums, albumIsNil, tmp, sawCache>>
  /\ UNCHANGED dlVars

\* lines 47-102: getFolders succeeds and tmp is built
AlbumsGetFoldersOk(c) ==
  /\ callPc[c] = "branch" /\ albumIsNil[c]
  /\ listed' = [listed EXCEPT ![c] = TRUE]
  /\ tmp' = [tmp EXCEPT ![c] = BuildAlbums(folders)]
  /\ callPc' = [callPc EXCEPT ![c] = "store"]
  /\ UNCHANGED <<folders, albums, albumIsNil, result, sawCache>>
  /\ UNCHANGED dlVars

\* lines 104-106: r._albums = tmp, under the lock
AlbumsStore(c) ==
  /\ callPc[c] = "store"
  /\ albums' = tmp[c]
  /\ callPc' = [callPc EXCEPT ![c] = "ret"]
  /\ UNCHANGED <<folders, albumIsNil, tmp, result, sawCache, listed>>
  /\ UNCHANGED dlVars

\* line 108: return r._albums, nil
AlbumsReturn(c) ==
  /\ callPc[c] = "ret"
  /\ result' = [result EXCEPT ![c] = <<albums, Nil>>]
  /\ tmp' = [tmp EXCEPT ![c] = EmptyMap]
  /\ callPc' = [callPc EXCEPT ![c] = "idle"]
  /\ UNCHANGED <<folders, albums, albumIsNil, sawCache, listed>>
  /\ UNCHANGED dlVars

\* the download command is not running
DownloadAtRest ==
  /\ fs = [a \in Assets |-> NoFile]
  /\ albumLen = 0
  /\ pcMain = "idle"
  /\ recent = Int64(0, 0)
  /\ stopNum = 0
  /\ threadNum = 0
  /\ autoDelete = FALSE
  /\ pc = [w \in Workers |-> "idle"]
  /\ photoAsset = [w \in Workers |-> 0]
  /\ err = [w \in Workers |-> Nil]
  /\ seenFound = [w \in Workers |-> 0]
  /\ iterPos = 0
  /\ lateFetch = 0
  /\ downloaded = 0
  /\ foundDownloadedNum = 0
  /\ finalErr = Nil
  /\ ret = Nil
  /\ hist = NoHist
  /\ fs0 = fs
  /\ cleanPrev = FALSE

\* a PhotoService with an empty cache, for every list of folder records
AlbumsInit ==
  /\ folders \in FolderLists
  /\ AlbumsAtRest
  /\ DownloadAtRest

AlbumsNext ==
  \E c \in Callers :
    \/ AlbumsCheck(c)
    \/ AlbumsReturnCached(c)
    \/ AlbumsGetFoldersFail(c)
    \/ AlbumsGetFoldersOk(c)
    \/ AlbumsStore(c)
    \/ AlbumsReturn(c)

AlbumsSpec == AlbumsInit /\ [][AlbumsNext]_vars

\* ------------------------------------------------------- words of the claims
AlbumAssets == 1..albumLen
DeletedAssets == (albumLen + 1)..MaxAssets

\* the local file of asset a is there with the asset's size
Present(files, a) == files[LocalPath(a)] = File(PhotoSize(a))

\* skip-or-fetch decisions made on asset a in this run
Decisions(a) == Count(a, "skip") + Count(a, "fetch")

\* the errors the workers of this run hit
WorkerErrs == {err[w] : w \in Spawned} \ {Nil}

\* a download run whose goroutines were started / have all finished
InDownload == pcMain = "dlWait" \/ (pcMain = "dlRet" /\ ret # ErrSetup)
DownloadEnded == InDownload /\ AllJoined
DownloadReturned == pcMain = "dlRet" /\ ret # ErrSetup

\* a delete pass whose goroutines were started / have all finished
InDelete == pcMain = "delWait" \/ (pcMain = "delRet" /\ ret # ErrSetup)
DeleteEnded == InDelete /\ AllJoined
DeleteReturned == pcMain = "delRet" /\ ret # ErrSetup

\* neither stop condition of the download run is reached
NoStopReached == downloaded < recent.lo /\ foundDownloadedNum < stopNum

\* ------------------------------------------------------------------ claims

\* C1: when downloadPhoto has returned after its workers joined, and some
\* worker's pull or fetch failed, the returned error is one of the errors that
\* occurred; it returns nil only if no worker failed.
C1_DownloadReturnsWorkerError ==
  DownloadReturned =>
    /\ (WorkerErrs # {} => ret \in WorkerErrs)
    /\ (ret = Nil => WorkerErrs = {})

\* C2: when autoDeletePhoto has returned after its workers joined, and some
\* worker's os.Remove failed with an error other than "does not exist", the
\* returned error is not nil.
C2_RemoveFailureReturned ==
  DeleteReturned =>
    ((\E w \in Spawned : err[w] = ErrRemove(w)) => ret # Nil)

\* C3: in a download run with cap recent = K >= 1 over an album of more than K
\* assets, none of them present locally, the already-present cap not reached
\* and no pull or fetch failing, at most K + (threadNum - 1) fetches are
\* started, no unfinished worker is ever blocked, and the run returns nil.
C3_Scenario ==
  /\ InDownload
  /\ recent.hi = 0 /\ recent.lo >= 1
  /\ albumLen > recent.lo
  /\ foundDownloadedNum < stopNum
  /\ \A a \in AlbumAssets : ~Present(fs0, a)
  /\ WorkerErrs = {}

C4_ExhaustionIsSuccess ==
  (DownloadEnded /\ NoStopReached /\ WorkerErrs = {}) =>
    /\ Total("skip") + Total("fetch") = albumLen
    /\ iterPos = albumLen
    /\ finalErr = Nil
    /\ (pcMain = "dlRet" => ret = Nil)

\* C4 witness: such a run over the largest album has returned.
C4_Witness ==
  /\ DownloadReturned /\ NoStopReached /\ WorkerErrs = {}
  /\ albumLen = MaxAssets
  /\ Total("skip") + Total("fetch") = albumLen

\* C5: in a download run no asset gets more than one skip-or-fetch decision,
\* and when a run of two or more workers ends with neither stop condition
\* reached and no failure, every asset of the album got its decision and every
\* fetch that was started has completed.
C5_EachAssetOnce ==
  InDownload =>
    /\ \A a \in Assets : Decisions(a) <= 1
    /\ (AllJoined /\ threadNum > 1 /\ NoStopReached /\ WorkerErrs = {}) =>
          \A a \in AlbumAssets :
            /\ Decisions(a) = 1
            /\ Count(a, "fetch") = Count(a, "ok")

\* C5 witness: two workers ended such a run, each asset decided once and at
\* least one of them fetched.
C5_Witness ==
  /\ DownloadEnded /\ threadNum > 1 /\ NoStopReached /\ WorkerErrs = {}
  /\ albumLen = MaxAssets
  /\ \A a \in AlbumAssets : Decisions(a) = 1
  /\ Total("ok") >= 1

\* C6: a download run that follows a download run which ended with neither
\* stop condition reached and no failure finds every asset of the album
\* present with its size and starts no fetch, whatever its own parameters.
C6_SecondRunFetchesNothing ==
  (pcMain = "dlWait" /\ cleanPrev) =>
    /\ \A a \in AlbumAssets : Present(fs0, a)
    /\ Total("fetch") = 0

\* C6 witness: the second run has ended and has skipped every asset of the
\* largest album.
C6_Witness ==
  /\ pcMain = "dlWait" /\ cleanPrev /\ AllJoined
  /\ albumLen = MaxAssets
  /\ \A a \in AlbumAssets : hist[a] = <<"skip">>

\* C7: a worker that has pulled the asset skips it, counting it in
\* foundDownloadedNum, exactly when its local file exists with the asset's
\* size; otherwise it starts a fetch and does not count it, and a fetch that
\* succeeds leaves a file of the asset's size at the path and counts the asset
\* in downloaded only.
C7_SkipIffPresent ==
  [][\A w \in Workers :
       LET a == photoAsset[w]
       IN /\ (pcMain = "dlWait" /\ pc[w] = "asset" /\ pc'[w] # "asset") =>
               IF Present(fs, a)
               THEN /\ pc'[w] = "chkFound"
                    /\ foundDownloadedNum' = foundDownloadedNum + 1
                    /\ hist'[a] = Append(hist[a], "skip")
                    /\ fs' = fs /\ downloaded' = downloaded
               ELSE /\ pc'[w] = "fetching"
                    /\ hist'[a] = Append(hist[a], "fetch")
                    /\ foundDownloadedNum' = foundDownloadedNum
          /\ (pcMain = "dlWait" /\ pc[w] = "fetching" /\ pc'[w] = "loop") =>
               /\ Present(fs', a)
               /\ foundDownloadedNum' = foundDownloadedNum
               /\ downloaded' = downloaded + 1
     ]_vars

\* C7 witness: an asset whose file had another size was fetched and now has
\* its size, and an asset whose file had its size was skipped.
C7_Witness ==
  /\ InDownload
  /\ \E a \in AlbumAssets :
       /\ fs0[LocalPath(a)] = File(PartialSize)
       /\ hist[a] = <<"fetch", "ok">>
       /\ Present(fs, a)
  /\ \E a \in AlbumAssets : Present(fs0, a) /\ hist[a] = <<"skip">>

\* C8: in the delete pass a worker that hit no failure has terminated only
\* when the iterator was exhausted, and a pass in which every removal found
\* the file absent or removed it and no pull failed has consumed the whole
\* iterator, recorded no error and returns nil.
C8_AbsentFileIsSuccess ==
  InDelete =>
    /\ \A w \in Spawned :
         (pc[w] = "done" /\ err[w] \notin {ErrPull(w), ErrRemove(w)}) =>
           (err[w] = Nil /\ iterPos = Cardinality(DeletedAssets))
    /\ (/\ AllJoined
        /\ \A a \in DeletedAssets : fs0[LocalPath(a)] = NoFile
        /\ Total("rmfail") = 0
        /\ \A w \in Spawned : err[w] # ErrPull(w)) =>
          /\ \A a \in DeletedAssets : hist[a] = <<"absent">>
          /\ \A w \in Spawned : err[w] = Nil
          /\ finalErr = Nil
          /\ (pcMain = "delRet" => ret = Nil)

\* C8 witness: two workers have ended a pass over two assets, both files
\* absent, and the pass has returned nil.
C8_Witness ==
  /\ DeleteReturned /\ AllJoined /\ threadNum = 2
  /\ Cardinality(DeletedAssets) >= 2
  /\ \A a \in DeletedAssets : fs0[LocalPath(a)] = NoFile /\ hist[a] = <<"absent">>
  /\ ret = Nil

\* C9: in a download run downloaded is the number of fetches that succeeded
\* and foundDownloadedNum the number of skips; when the run ends with neither
\* stop condition reached and no failure, downloaded is the number of assets
\* of the album that were missing or of another size when the run started,
\* foundDownloadedNum the number of those present with their size, and the
\* run returns nil.
C9_CounterAccounting ==
  InDownload =>
    /\ downloaded = Total("ok")
    /\ foundDownloadedNum = Total("skip")
    /\ (AllJoined /\ NoStopReached /\ WorkerErrs = {}) =>
          /\ downloaded = Cardinality({a \in AlbumAssets : ~Present(fs0, a)})
          /\ foundDownloadedNum = Cardinality({a \in AlbumAssets : Present(fs0, a)})
          /\ finalErr = Nil
          /\ (pcMain = "dlRet" => ret = Nil)

\* C9 witness: the scenario of the specification: A absent, B present with
\* its size, recent not set, the default stop-found-num, one worker.
C9_Witness ==
  /\ DownloadReturned /\ threadNum = 1 /\ albumLen = 2
  /\ recent = Int64(0, albumLen) /\ stopNum = DefaultStopNum
  /\ fs0[LocalPath(1)] = NoFile /\ Present(fs0, 2)
  /\ hist[1] = <<"fetch", "ok">> /\ hist[2] = <<"skip">>
  /\ downloaded = 1 /\ foundDownloadedNum = 1
  /\ ret = Nil

\* C10: within a download run and within a delete pass finalErr is assigned at
\* most once: once it holds an error no later failure replaces it.
C10_SingleAssignment ==
  [][(pcMain \in {"dlWait", "delWait"} /\ finalErr # Nil) => finalErr' = finalErr]_vars

\* ---------------------------------------------------------------------------
\* C11 as stated: once a cap of the download run is reached (downloaded >=
\* recent or foundDownloadedNum >= stopNum), no worker starts a new fetch;
\* a step taken in such a state never adds a fetch to the history.
C11_NoFetchAfterCap ==
  [][(pcMain = "dlWait" /\ CapReached) => Total("fetch")' = Total("fetch")]_vars

\* C11 amended: the checks of lines 147 and 150 are made at the loop top only,
\* so a worker that had passed them before the cap was reached still pulls
\* and starts one fetch; the worker whose increment reached the cap does not,
\* so at most threadNum - 1 fetches start after a cap is reached, and a
\* worker that makes a loop-top check with that cap reached terminates.
C11_AtMostOneLateFetchPerSibling ==
  [][ /\ (InDownload' => lateFetch' <= threadNum' - 1)
      /\ \A w \in Workers :
           /\ (pcMain = "dlWait" /\ pc[w] = "loop" /\ pc'[w] # "loop"
               /\ recent.hi = 0 /\ downloaded >= recent.lo)
                => pc'[w] = "done"
           /\ (pcMain = "dlWait" /\ pc[w] = "chkStop" /\ pc'[w] # "chkStop"
               /\ foundDownloadedNum >= stopNum)
                => pc'[w] = "done" ]_vars

\* two workers passed the checks, one reached the cap of one new download,
\* the other started its fetch afterwards
C11_Witness ==
  /\ DownloadEnded /\ threadNum = 2
  /\ recent = Int64(0, 1)
  /\ lateFetch = 1
  /\ Total("fetch") = 2

\* ---------------------------------------------------------------------------
\* C12: foundDownloadedNum is one count for all workers and never decreases
\* during a run (a fetch in between does not reset it); the worker whose own
\* increment brought it to stopNum terminates at line 172 without pulling,
\* every other worker terminates at its next check of line 150, and with
\* stopNum >= 1 a run records at most stopNum + threadNum - 1 skips.
C12_SkipBound ==
  (InDownload /\ stopNum >= 1) => Total("skip") <= stopNum + threadNum - 1

C12_GlobalPresenceCount ==
  [][ /\ (pcMain = "dlWait" /\ pcMain' = "dlWait")
          => foundDownloadedNum' >= foundDownloadedNum
      /\ (pcMain = "dlWait") => foundDownloadedNum = Total("skip")
      /\ \A w \in Workers :
           /\ (pcMain = "dlWait" /\ pc[w] = "chkFound" /\ pc'[w] # "chkFound"
               /\ seenFound[w] >= stopNum)
                => pc'[w] = "done"
           /\ (pcMain = "dlWait" /\ pc[w] = "chkStop" /\ pc'[w] # "chkStop"
               /\ foundDownloadedNum >= stopNum)
                => pc'[w] = "done"
      /\ C12_SkipBound' ]_vars

\* stopNum = 1 with two workers: both had pulled before the first skip was
\* counted, so the run ends with stopNum + threadNum - 1 = 2 skips
C12_Witness ==
  /\ DownloadEnded /\ stopNum = 1 /\ threadNum = 2
  /\ Total("skip") = 2
  /\ foundDownloadedNum = 2

\* ---------------------------------------------------------------------------
\* C13: downloadPhoto and autoDeletePhoto return only after wait.Wait(): in
\* no state has a run returned while one of its workers is still at a step
\* (checking, pulling, fetching, removing or about to write finalErr), and
\* the step that returns is taken with every spawned worker terminated.
C13_BarrierJoin ==
  [][ /\ (pcMain' \notin {"dlWait", "delWait"})
          => \A w \in Workers : pc'[w] \in {"idle", "done"}
      /\ (pcMain \in {"dlWait", "delWait"} /\ pcMain' # pcMain)
          => \A w \in Workers : (w <= threadNum) => pc[w] = "done" ]_vars

\* a delete pass of two workers has returned after a removal; the download
\* run before it had returned too
C13_Witness ==
  /\ pcMain = "delRet" /\ threadNum = 2
  /\ \A w \in Workers : pc[w] = "done"
  /\ Total("removed") >= 1

\* ---------------------------------------------------------------------------
\* C14: a worker's failure stops no other worker. A worker that terminated
\* without a failure of its own did so on the end of the iterator or, in a
\* download run, on a stop condition; and when a run of two or more workers
\* in which exactly one worker failed has ended with no stop condition
\* reached, the iterator is exhausted and every asset of the sequence was
\* pulled and processed: decided once in a download run (each started fetch
\* has completed or failed), removed or tried once in a delete pass.
C14_NoSiblingCancellation ==
  /\ InDownload =>
       /\ \A w \in Spawned :
            (pc[w] = "done" /\ err[w] = Nil) =>
               (iterPos = albumLen \/ ~NoStopReached)
       /\ (AllJoined /\ threadNum >= 2 /\ Cardinality(WorkerErrs) = 1
           /\ NoStopReached) =>
             /\ iterPos = albumLen
             /\ \A a \in AlbumAssets :
                  /\ Decisions(a) = 1
                  /\ Count(a, "fetch") = Count(a, "ok") + Count(a, "fail")
  /\ InDelete =>
       /\ \A w \in Spawned :
            (pc[w] = "done" /\ err[w] = Nil) =>
               iterPos = Len(DeletedSeq(albumLen))
       /\ (AllJoined /\ threadNum >= 2 /\ Cardinality(WorkerErrs) = 1) =>
             /\ iterPos = Len(DeletedSeq(albumLen))
             /\ \A a \in DeletedAssets : Len(hist[a]) = 1

\* one of two download workers failed on its fetch of the first asset and
\* the other went on to pull and download the second
C14_Witness ==
  /\ DownloadEnded /\ threadNum = 2 /\ NoStopReached
  /\ albumLen = MaxAssets
  /\ Cardinality(WorkerErrs) = 1
  /\ hist[1] = <<"fetch", "fail">>
  /\ \A a \in AlbumAssets \ {1} : hist[a] = <<"fetch", "ok">>

\* ---------------------------------------------------------------------------
\* C15: under weak fairness of the workers and of wait.Wait(), every
\* download run and every delete pass whose workers were started returns
\* (which, by the join, is after every worker has terminated), for every
\* thread number and every pair of caps; and no worker waits on another: a
\* worker that has not terminated always has a step it can take.
C15_Termination ==
  /\ (pcMain = "dlWait") ~> (pcMain = "dlRet" /\ AllJoined)
  /\ (pcMain = "delWait") ~> (pcMain = "delRet" /\ AllJoined)
  /\ [](\A w \in Spawned :
          (pcMain \in {"dlWait", "delWait"} /\ pc[w] # "done")
             => ENABLED WorkerStep(w))

\* a delete pass of two workers has returned, every asset of Recently
\* Deleted handled, after the download run of two workers had returned
C15_Witness ==
  /\ pcMain = "delRet" /\ AllJoined /\ threadNum = 2
  /\ ret = Nil
  /\ Total("removed") + Total("absent") = MaxAssets - albumLen
  /\ albumLen < MaxAssets

\* ---------------------------------------------------------------------------
\* C16: autoDeletePhoto is entered only from a download run that has
\* returned, with every download worker joined, with --auto-delete set and
\* with downloadPhoto's return value nil; and a local file is removed only
\* in the delete pass, where no worker is at a step of the download loop.
DownloadPcs == {"loop", "chkStop", "next", "asset", "chkFound", "fetching"}

C16_PassOrder ==
  [][ /\ (pcMain # "delWait" /\ pcMain' \in {"delWait", "delRet"}) =>
            /\ pcMain = "dlRet"
            /\ autoDelete
            /\ ret = Nil
            /\ \A w \in Workers : pc[w] \in {"idle", "done"}
      /\ (\E a \in Assets : fs[a] # NoFile /\ fs'[a] = NoFile) =>
            /\ pcMain = "delWait"
            /\ \A w \in Workers : pc[w] \notin DownloadPcs ]_vars

\* the delete pass was started after a download run that returned nil, one
\* of its two workers has removed a file and the other is still at work
C16_Witness ==
  /\ pcMain = "delWait" /\ autoDelete /\ ret = Nil /\ threadNum = 2
  /\ Total("removed") >= 1
  /\ \E w \in Spawned : pc[w] = "dRemove"

\* ---------------------------------------------------------------------------
\* C17: no step of a download run removes a local file, and a file written
\* by a fetch that succeeded is there with the asset's size for the rest of
\* the run and when the run has returned, whatever ended the run: the end of
\* the iterator, a stop condition or another worker's failure.
C17_FetchedFilesStay ==
  InDownload => \A a \in Assets : (Count(a, "ok") >= 1) => Present(fs, a)

C17_PartialProgressRetained ==
  [][ /\ (pcMain = "dlWait") =>
            \A a \in Assets : (fs[a] # NoFile) => (fs'[a] # NoFile)
      /\ C17_FetchedFilesStay' ]_vars

\* the run has returned after one worker's fetch failed; the file the other
\* worker had downloaded before is in place
C17_Witness ==
  /\ DownloadReturned /\ threadNum = 2
  /\ \E w \in Spawned : err[w] = ErrFetch(w)
  /\ \E a \in AlbumAssets :
       /\ hist[a] = <<"fetch", "ok">>
       /\ ~Present(fs0, a) /\ Present(fs, a)

\* ---------------------------------------------------------------------------
\* C18: stop-found-num has no value that means "no cap": in a download run
\* with stopNum <= 0 every worker returns at its first loop-top check, so
\* nothing is pulled, skipped or fetched, no file changes, and the run
\* returns nil whatever the album holds. Only recent has such a value: 0 is
\* replaced by the album's size before the workers start, so in a run
\* recent is 0 only for an empty album.
C18_NoUnboundedStopNum ==
  InDownload =>
    /\ (stopNum <= 0) =>
          /\ iterPos = 0
          /\ Total("skip") + Total("fetch") = 0
          /\ \A w \in Workers : pc[w] \in {"idle", "loop", "chkStop", "done"}
          /\ WorkerErrs = {}
          /\ fs = fs0
          /\ (pcMain = "dlRet") => ret = Nil
    /\ IsZero(recent) => albumLen = 0

\* two workers have returned nil from a run with stopNum <= 0 and a cap on
\* new downloads of the whole album, with a file of the album missing
C18_Witness ==
  /\ DownloadReturned /\ threadNum = 2
  /\ stopNum <= 0
  /\ albumLen = MaxAssets /\ recent = Int64(0, albumLen)
  /\ \E a \in AlbumAssets : ~Present(fs, a)
  /\ iterPos = 0 /\ ret = Nil

\* ---------------------------------------------------------------------------
\* C19: for every cap recent >= 1, also above 2^31 - 1, a worker leaves the
\* loop at the check of line 147 exactly when the number of completed new
\* downloads is >= recent: the check never fires with fewer than recent
\* downloads completed, and always fires with recent or more.
C19_NarrowingKeepsTheCap ==
  [][ \A w \in Workers :
        (/\ pcMain = "dlWait" /\ pc[w] = "loop" /\ pc'[w] # "loop"
         /\ (recent.hi > 0 \/ (recent.hi = 0 /\ recent.lo >= 1)))
          => ((pc'[w] = "done") <=> AtLeastRecent(downloaded, recent)) ]_vars

\* ---------------------------------------------------------------------------
\* C20 in the words of the claim: the name a folder record carries, and the
\* records that count as user folders (named, not deleted, not the root).
FolderName(f) ==
  IF f.AlbumNameEnc = <<>> THEN "" ELSE Base64Decode(f.AlbumNameEnc[1])

IsUserFolder(f) ==
  /\ FolderName(f) # ""
  /\ ~(f.IsDeleted # <<>> /\ f.IsDeleted[1] # "")
  /\ f.RecordName # "----Root-Folder----"

UserFolders == {i \in 1..Len(folders) : IsUserFolder(folders[i])}

\* the cache holds every built-in name and the name of every user folder,
\* nothing else; a name some user folder carries is that folder's album,
\* every other name is the built-in album
C20_CacheContent ==
  (DOMAIN albums # {}) =>
    /\ DOMAIN albums =
         DOMAIN icloudPhotoFolderMeta \cup {FolderName(folders[i]) : i \in UserFolders}
    /\ \A n \in DOMAIN albums :
         IF \E i \in UserFolders : FolderName(folders[i]) = n
         THEN \E i \in UserFolders :
                /\ FolderName(folders[i]) = n
                /\ albums[n].ObjType =
                     "CPLContainerRelationNotDeletedByAssetDate:" \o folders[i].RecordName
         ELSE /\ albums[n].ObjType = icloudPhotoFolderMeta[n].ObjType
              /\ albums[n].ListType = icloudPhotoFolderMeta[n].ListType

\* C20: the cache changes only in the store of a call whose getFolders
\* succeeded; a call whose getFolders fails returns nil and the error and
\* leaves the cache as it is, so that a call that begins with the cache
\* still empty calls getFolders again; a filled cache has the content
\* C20_CacheContent says; and a call that begins with the cache filled
\* returns the cache without calling getFolders and without writing it.
C20_CacheOnlyFromListing ==
  [][ /\ (albums' # albums) =>
            \E c \in Callers : callPc[c] = "store" /\ listed[c] /\ albums' = tmp[c]
      /\ \A c \in Callers :
           /\ (result'[c] # result[c] /\ result'[c] # <<>> /\ result'[c][2] # Nil) =>
                 /\ result'[c] = <<EmptyMap, ErrFolders>>
                 /\ albums' = albums
                 /\ listed'[c]
           /\ (callPc[c] # "idle" /\ callPc'[c] = "idle" /\ ~sawCache[c]) =>
                 listed'[c]
           /\ (callPc[c] # "idle" /\ callPc'[c] = "idle" /\ sawCache[c]) =>
                 /\ result'[c] = <<albums, Nil>>
                 /\ ~listed'[c]
                 /\ albums' = albums
           /\ sawCache[c] => ~listed[c]
      /\ C20_CacheContent' ]_vars

\* one caller's getFolders failed; the next call listed a user folder named
\* like a built-in album and a deleted folder and filled the cache; a call
\* after that returned the cache
C20_Witness ==
  /\ \E c \in Callers : result[c] = <<EmptyMap, ErrFolders>>
  /\ \E c \in Callers :
       /\ callPc[c] = "idle" /\ sawCache[c]
       /\ result[c] = <<albums, Nil>>
  /\ \E i \in 1..Len(folders) : folders[i] = Folder("F4", <<"Qg==">>, <<"1">>)
  /\ "B" \notin DOMAIN albums
  /\ "All Photos" \in DOMAIN albums
  /\ albums["Favorites"].ObjType = "CPLContainerRelationNotDeletedByAssetDate:F3"

============================================================================
